---- MODULE Spec2Model ----
(***************************************************************************)
(* State-machine model of the ShariaPlatform ink! contract                 *)
(* (src/contract/lib.rs, src/contract/types.rs).                           *)
(*                                                                         *)
(* Every #[ink(message)] that mutates storage is one action.  A message    *)
(* that returns Err leaves storage untouched and is recorded in `last`;    *)
(* a message that panics (checked arithmetic overflow) is reverted by the  *)
(* runtime and is recorded in `last` with res = "Trap".                    *)
(* Balance is u128 in the contract; the model scales the width down to     *)
(* 0..MaxBalance, and the u32 of heights and intervals to 0..MaxU32, so    *)
(* that the overflow cases are reachable.                                  *)
(***************************************************************************)
EXTENDS Integers, Sequences, FiniteSets, TLC

VARIABLES
    owner,                    \* ShariaPlatform.owner
    sharia_coins,             \* Mapping<String, ShariaCoin>
    coin_ids,                 \* Vec<String>
    etfs,                     \* Mapping<u32, ETF>
    template_etfs,            \* Mapping<u32, ETF>
    next_etf_id,              \* u32
    user_etf_subscriptions,   \* Mapping<H160, Vec<u32>>
    dca_orders,               \* Mapping<u32, DCAOrder>
    user_dca_orders,          \* Mapping<H160, Vec<u32>>
    next_dca_order_id,        \* u32
    balances,                 \* Mapping<H160, Balance>
    block_number,             \* env().block_number()
    block_timestamp,          \* env().block_timestamp()
    last,                     \* the last call: message, caller, argument, result
    executed_at               \* per order: the height of its creation or of its
                              \* last successful execution

storage == <<owner, sharia_coins, coin_ids, etfs, template_etfs, next_etf_id,
             user_etf_subscriptions, dca_orders, user_dca_orders,
             next_dca_order_id, balances>>

env == <<block_number, block_timestamp>>

vars == <<storage, env, last, executed_at>>

----------------------------------------------------------------------------
(* Bounds of the model and the sets the inputs are drawn from.             *)

MaxBalance == 3          \* stands for u128::MAX
MaxU32 == 5              \* stands for u32::MAX

\* Spec: every message, shallow
AllMaxEtfId == 1         \* basket ids are allocated up to AllMaxEtfId
AllMaxOrderId == 1       \* order ids are allocated up to AllMaxOrderId
AllMaxHeight == 2        \* block_number advances up to AllMaxHeight
AllMaxClock == 1         \* block_timestamp advances up to AllMaxClock
AllMaxCompleted == 2     \* intervals_completed is raised up to AllMaxCompleted

\* SpecEtf: registry, balances and baskets
MaxEtfId == 2

\* SpecDca: registry, balances, orders and the chain
MaxOrderId == 1
MaxHeight == 3
MaxClock == 1
MaxCompleted == 3

\* SpecExec: two accounts holding balances, two orders and a basket
ExecMaxOrderId == 2
ExecMaxEtfId == 1
ExecMaxHeight == 2
ExecMaxCompleted == 2

\* SpecSched: one order, intervals up to the largest u32
SchedMaxOrderId == 1
SchedMaxHeight == 4
SchedMaxCompleted == 3

\* SpecTemplates: basket and template ids past the range list_templates scans
TplMaxEtfId == 11

Deployer == "owner"
Accounts == {"owner", "alice", "bob"}
Users == Accounts \ {Deployer}

CoinNames == {"name"}
CoinSymbols == {"sym"}
ComplianceReasons == {"reason"}

EtfNames == {"etf"}
EtfDescriptions == {"descr"}

----------------------------------------------------------------------------
(* Pure helpers.                                                           *)

RECURSIVE AllocationTotal(_)
\* allocations.iter().map(|(_, p)| *p as u16).sum(); a u16 cannot overflow
\* with fewer than 258 entries of at most 255 each.
AllocationTotal(allocations) ==
    IF allocations = << >> THEN 0
    ELSE Head(allocations)[2] + AllocationTotal(Tail(allocations))

is_sharia_compliant(coin_id) ==
    IF coin_id \in DOMAIN sharia_coins
    THEN sharia_coins[coin_id].verified
    ELSE FALSE

\* the records of the ids of coin_ids, in that order, skipping an id that
\* has no record
RECURSIVE CoinsOf(_)
CoinsOf(ids) ==
    IF ids = << >> THEN << >>
    ELSE (IF Head(ids) \in DOMAIN sharia_coins
          THEN <<sharia_coins[Head(ids)]>> ELSE << >>) \o CoinsOf(Tail(ids))

get_sharia_coins == CoinsOf(coin_ids)

AllCompliant(allocations) ==
    \A i \in 1..Len(allocations) : is_sharia_compliant(allocations[i][1])

\* Mutant of ensure_owner: every account passes.
ensure_anyone(caller) == caller \in Accounts

ensure_owner(caller) == caller = owner

\* Mapping::insert
Insert(m, k, v) == [x \in DOMAIN m \cup {k} |-> IF x = k THEN v ELSE m[x]]

\* Mapping::remove
Remove(m, k) == [x \in DOMAIN m \ {k} |-> m[x]]

\* Mutant of Contains: only the first element is looked at.
ContainsAtHead(s, e) == s # << >> /\ Head(s) = e

\* Vec::contains
Contains(s, e) == \E i \in 1..Len(s) : s[i] = e

\* iter().position(..) followed by Vec::remove(pos): drops the first occurrence
RECURSIVE RemoveFirst(_, _)
RemoveFirst(s, e) ==
    IF s = << >> THEN << >>
    ELSE IF Head(s) = e THEN Tail(s)
    ELSE <<Head(s)>> \o RemoveFirst(Tail(s), e)

\* a call and its outcome: message, caller, id argument, amount argument,
\* allocations argument, Ok / error kind / Trap, and the id returned
CallA(op, caller, arg, amount, allocations, res, ret) ==
    [op |-> op, caller |-> caller, arg |-> arg, amount |-> amount,
     allocations |-> allocations, res |-> res, ret |-> ret]

Call(op, caller, arg, amount, res, ret) ==
    CallA(op, caller, arg, amount, << >>, res, ret)

----------------------------------------------------------------------------
(* Constructor.                                                            *)

InitNextEtfId == 1
InitNextDcaOrderId == 1

Template(id, name, description, allocations) ==
    [id |-> id, name |-> name, description |-> description, creator |-> Deployer,
     allocations |-> allocations, is_template |-> TRUE, total_value |-> 0]

initialize_template_etfs ==
    (1 :> Template(1, "Major Sharia Coins ETF",
                   "Diversified portfolio of major Sharia-compliant cryptocurrencies",
                   << <<"BTC", 40>>, <<"ETH", 30>>, <<"BNB", 15>>, <<"XRP", 15>> >>))
    @@
    (2 :> Template(2, "Sharia Stablecoins ETF",
                   "Portfolio focused on Sharia-compliant stablecoins",
                   << <<"USDT", 50>>, <<"USDC", 30>>, <<"DAI", 20>> >>))
    @@
    (3 :> Template(3, "DeFi Sharia ETF",
                   "Decentralized finance tokens that comply with Sharia principles",
                   << <<"ETH", 50>>, <<"BNB", 25>>, <<"ADA", 15>>, <<"DOT", 10>> >>))

Init ==
    /\ owner = Deployer
    /\ sharia_coins = << >>
    /\ coin_ids = << >>
    /\ etfs = << >>
    /\ template_etfs = initialize_template_etfs
    /\ next_etf_id = InitNextEtfId
    /\ user_etf_subscriptions = [a \in Accounts |-> << >>]
    /\ dca_orders = << >>
    /\ user_dca_orders = [a \in Accounts |-> << >>]
    /\ next_dca_order_id = InitNextDcaOrderId
    /\ balances = [a \in Accounts |-> 0]
    /\ block_number = 0
    /\ block_timestamp = 0
    /\ last = Call("new", Deployer, 0, 0, "Ok", 0)
    /\ executed_at = << >>

----------------------------------------------------------------------------
(* Outcomes of a call.                                                     *)

\* return Err(e): nothing was written before the return
Fail(op, caller, arg, amount, e) ==
    /\ last' = Call(op, caller, arg, amount, e, 0)
    /\ UNCHANGED <<storage, env, executed_at>>

FailA(op, caller, allocations, e) ==
    /\ last' = CallA(op, caller, 0, 0, allocations, e, 0)
    /\ UNCHANGED <<storage, env, executed_at>>

\* a panic (arithmetic overflow with overflow checks on): the call is reverted
Trap(op, caller, arg, amount) ==
    /\ last' = Call(op, caller, arg, amount, "Trap", 0)
    /\ UNCHANGED <<storage, env, executed_at>>

\* What an overflowing u128 addition can do, by build: panic or wrap around.
OverflowOutcomes == {"panic", "wrap"}

Wrap(n) == n % (MaxBalance + 1)

\* the same for a u32
WrapU32(n) == n % (MaxU32 + 1)

\* Mutant of Insufficient: the check is off by one.
InsufficientOffByOne(user_balance, amount) == user_balance + 1 < amount

\* the sufficiency check `user_balance < amount` of every debit
Insufficient(user_balance, amount) == user_balance < amount

\* the debit `user_balance - amount`
Debited(user_balance, amount) == user_balance - amount

----------------------------------------------------------------------------
(* Coin management.                                                        *)

register_sharia_coin(caller, coin_id, name, symbol, compliance_reason) ==
    IF ~ensure_owner(caller)
    THEN Fail("register_sharia_coin", caller, 0, 0, "Unauthorized")
    ELSE /\ sharia_coins' = Insert(sharia_coins, coin_id,
                [id |-> coin_id, name |-> name, symbol |-> symbol,
                 verified |-> TRUE, compliance_reason |-> compliance_reason])
         /\ coin_ids' = IF ~Contains(coin_ids, coin_id)
                        THEN Append(coin_ids, coin_id)
                        ELSE coin_ids
         /\ last' = Call("register_sharia_coin", caller, 0, 0, "Ok", 0)
         /\ UNCHANGED <<owner, etfs, template_etfs, next_etf_id,
                        user_etf_subscriptions, dca_orders, user_dca_orders,
                        next_dca_order_id, balances, env, executed_at>>

\* Mutant of remove_sharia_coin: baskets that name the asset are deleted too.
remove_sharia_coin_cascading(caller, coin_id) ==
    IF ~ensure_owner(caller)
    THEN Fail("remove_sharia_coin", caller, 0, 0, "Unauthorized")
    ELSE IF coin_id \notin DOMAIN sharia_coins
    THEN Fail("remove_sharia_coin", caller, 0, 0, "CoinNotFound")
    ELSE /\ sharia_coins' = Remove(sharia_coins, coin_id)
         /\ coin_ids' = RemoveFirst(coin_ids, coin_id)
         /\ etfs' = [id \in {e \in DOMAIN etfs :
                                \A i \in 1..Len(etfs[e].allocations) :
                                    etfs[e].allocations[i][1] # coin_id}
                        |-> etfs[id]]
         /\ last' = Call("remove_sharia_coin", caller, 0, 0, "Ok", 0)
         /\ UNCHANGED <<owner, template_etfs, next_etf_id,
                        user_etf_subscriptions, dca_orders, user_dca_orders,
                        next_dca_order_id, balances, env, executed_at>>

remove_sharia_coin(caller, coin_id) ==
    IF ~ensure_owner(caller)
    THEN Fail("remove_sharia_coin", caller, 0, 0, "Unauthorized")
    ELSE IF coin_id \notin DOMAIN sharia_coins
    THEN Fail("remove_sharia_coin", caller, 0, 0, "CoinNotFound")
    ELSE /\ sharia_coins' = Remove(sharia_coins, coin_id)
         /\ coin_ids' = RemoveFirst(coin_ids, coin_id)
         /\ last' = Call("remove_sharia_coin", caller, 0, 0, "Ok", 0)
         /\ UNCHANGED <<owner, etfs, template_etfs, next_etf_id,
                        user_etf_subscriptions, dca_orders, user_dca_orders,
                        next_dca_order_id, balances, env, executed_at>>

----------------------------------------------------------------------------
(* ETF management.                                                         *)

\* Mutant of BadTotal: only a total above 100 is rejected.
BadTotalAbove(allocations) == AllocationTotal(allocations) > 100

\* `total != 100`
BadTotal(allocations) == AllocationTotal(allocations) # 100

\* the id a creation takes from the counter
AllocatedEtfId == next_etf_id

\* Mutant of create_etf: the id is taken from the counter before validation.
create_etf_counting_first(caller, name, description, allocations) ==
    IF BadTotal(allocations) \/ ~AllCompliant(allocations)
    THEN /\ next_etf_id' = next_etf_id + 1
         /\ last' = CallA("create_etf", caller, 0, 0, allocations,
                          IF BadTotal(allocations) THEN "InvalidAllocation"
                          ELSE "InvalidCoinInAllocation", 0)
         /\ UNCHANGED <<owner, sharia_coins, coin_ids, etfs, template_etfs,
                        user_etf_subscriptions, dca_orders, user_dca_orders,
                        next_dca_order_id, balances, env, executed_at>>
    ELSE LET etf_id == AllocatedEtfId IN
         /\ next_etf_id' = next_etf_id + 1
         /\ etfs' = Insert(etfs, etf_id,
                [id |-> etf_id, name |-> name, description |-> description,
                 creator |-> caller, allocations |-> allocations,
                 is_template |-> FALSE, total_value |-> 0])
         /\ user_etf_subscriptions' =
                [user_etf_subscriptions EXCEPT ![caller] = Append(@, etf_id)]
         /\ last' = CallA("create_etf", caller, 0, 0, allocations, "Ok", etf_id)
         /\ UNCHANGED <<owner, sharia_coins, coin_ids, template_etfs, dca_orders,
                        user_dca_orders, next_dca_order_id, balances, env,
                        executed_at>>

create_etf(caller, name, description, allocations) ==
    IF BadTotal(allocations)
    THEN FailA("create_etf", caller, allocations, "InvalidAllocation")
    ELSE IF ~AllCompliant(allocations)
    THEN FailA("create_etf", caller, allocations, "InvalidCoinInAllocation")
    ELSE LET etf_id == AllocatedEtfId IN
         /\ next_etf_id' = next_etf_id + 1
         /\ etfs' = Insert(etfs, etf_id,
                [id |-> etf_id, name |-> name, description |-> description,
                 creator |-> caller, allocations |-> allocations,
                 is_template |-> FALSE, total_value |-> 0])
         /\ user_etf_subscriptions' =
                [user_etf_subscriptions EXCEPT ![caller] = Append(@, etf_id)]
         /\ last' = CallA("create_etf", caller, 0, 0, allocations, "Ok", etf_id)
         /\ UNCHANGED <<owner, sharia_coins, coin_ids, template_etfs, dca_orders,
                        user_dca_orders, next_dca_order_id, balances, env,
                        executed_at>>

create_template_etf(caller, name, description, allocations) ==
    IF ~ensure_owner(caller)
    THEN FailA("create_template_etf", caller, allocations, "Unauthorized")
    ELSE IF BadTotal(allocations)
    THEN FailA("create_template_etf", caller, allocations, "InvalidAllocation")
    ELSE IF ~AllCompliant(allocations)
    THEN FailA("create_template_etf", caller, allocations, "InvalidCoinInAllocation")
    ELSE LET template_id == AllocatedEtfId IN
         /\ next_etf_id' = next_etf_id + 1
         /\ template_etfs' = Insert(template_etfs, template_id,
                [id |-> template_id, name |-> name, description |-> description,
                 creator |-> owner, allocations |-> allocations,
                 is_template |-> TRUE, total_value |-> 0])
         /\ last' = CallA("create_template_etf", caller, 0, 0, allocations,
                          "Ok", template_id)
         /\ UNCHANGED <<owner, sharia_coins, coin_ids, etfs,
                        user_etf_subscriptions, dca_orders, user_dca_orders,
                        next_dca_order_id, balances, env, executed_at>>

subscribe_to_template_etf(caller, template_etf_id, investment_amount) ==
    IF template_etf_id \notin DOMAIN template_etfs
    THEN Fail("subscribe_to_template_etf", caller, template_etf_id,
              investment_amount, "ETFNotFound")
    ELSE IF Insufficient(balances[caller], investment_amount)
    THEN Fail("subscribe_to_template_etf", caller, template_etf_id,
              investment_amount, "InsufficientBalance")
    ELSE LET template == template_etfs[template_etf_id]
             user_balance == balances[caller]
             etf_id == AllocatedEtfId IN
         /\ next_etf_id' = next_etf_id + 1
         /\ balances' = IF investment_amount > 0
                        THEN [balances EXCEPT
                                ![caller] = Debited(user_balance, investment_amount)]
                        ELSE balances
         /\ etfs' = Insert(etfs, etf_id,
                [id |-> etf_id, name |-> template.name,
                 description |-> template.description, creator |-> caller,
                 allocations |-> template.allocations, is_template |-> FALSE,
                 total_value |-> investment_amount])
         /\ user_etf_subscriptions' =
                [user_etf_subscriptions EXCEPT ![caller] = Append(@, etf_id)]
         /\ last' = Call("subscribe_to_template_etf", caller, template_etf_id,
                         investment_amount, "Ok", etf_id)
         /\ UNCHANGED <<owner, sharia_coins, coin_ids, template_etfs, dca_orders,
                        user_dca_orders, next_dca_order_id, env, executed_at>>

invest_in_etf(caller, etf_id, amount) ==
    IF etf_id \notin DOMAIN etfs
    THEN Fail("invest_in_etf", caller, etf_id, amount, "ETFNotFound")
    ELSE IF etfs[etf_id].creator # caller
    THEN Fail("invest_in_etf", caller, etf_id, amount, "ETFNotOwnedByUser")
    ELSE IF Insufficient(balances[caller], amount)
    THEN Fail("invest_in_etf", caller, etf_id, amount, "InsufficientBalance")
    ELSE LET etf == etfs[etf_id]
             user_balance == balances[caller]
             sum == etf.total_value + amount IN
         \* etf.total_value += amount
         IF sum > MaxBalance
         THEN \E outcome \in OverflowOutcomes :
                IF outcome = "panic"
                THEN Trap("invest_in_etf", caller, etf_id, amount)
                ELSE /\ balances' = [balances EXCEPT
                                       ![caller] = Debited(user_balance, amount)]
                     /\ etfs' = [etfs EXCEPT ![etf_id].total_value = Wrap(sum)]
                     /\ last' = Call("invest_in_etf", caller, etf_id, amount, "Ok", 0)
                     /\ UNCHANGED <<owner, sharia_coins, coin_ids, template_etfs,
                                    next_etf_id, user_etf_subscriptions, dca_orders,
                                    user_dca_orders, next_dca_order_id, env,
                                    executed_at>>
         ELSE /\ balances' = [balances EXCEPT
                                ![caller] = Debited(user_balance, amount)]
              /\ etfs' = [etfs EXCEPT ![etf_id].total_value = sum]
              /\ last' = Call("invest_in_etf", caller, etf_id, amount, "Ok", 0)
              /\ UNCHANGED <<owner, sharia_coins, coin_ids, template_etfs,
                             next_etf_id, user_etf_subscriptions, dca_orders,
                             user_dca_orders, next_dca_order_id, env,
                             executed_at>>

\* `for id in 1..=10`
TemplateScanLast == 10

\* the templates found under the ids 1..=last, in the order of the ids
RECURSIVE TemplatesUpTo(_)
TemplatesUpTo(last_id) ==
    IF last_id = 0 THEN << >>
    ELSE TemplatesUpTo(last_id - 1)
            \o (IF last_id \in DOMAIN template_etfs
                THEN <<template_etfs[last_id]>> ELSE << >>)

get_template_etfs == TemplatesUpTo(TemplateScanLast)

----------------------------------------------------------------------------
(* DCA orders.                                                             *)

\* `current_timestamp < order.start_timestamp`
NotYetStarted(order) == block_timestamp < order.start_timestamp

\* Mutant of NotYetDue: the height check is off by one.
NotYetDueOffByOne(order) == block_number + 1 < order.next_execution_block

\* `current_block < order.next_execution_block`
NotYetDue(order) == block_number < order.next_execution_block

\* Mutant of LimitReached: the limit is compared with > instead of >=.
LimitExceeded(total_intervals, intervals_completed) ==
    total_intervals > 0 /\ intervals_completed > total_intervals

\* Mutant of LimitReached: an order of one interval is never deactivated.
LimitReachedAfterFirst(total_intervals, intervals_completed) ==
    total_intervals > 1 /\ intervals_completed >= total_intervals

\* `order.total_intervals > 0 && order.intervals_completed >= order.total_intervals`
LimitReached(total_intervals, intervals_completed) ==
    total_intervals > 0 /\ intervals_completed >= total_intervals

create_dca_order(caller, coin_id, amount_per_interval, interval_blocks, total_intervals, start_timestamp) ==
    IF ~is_sharia_compliant(coin_id)
    THEN Fail("create_dca_order", caller, 0, 0, "NotShariaCompliant")
    ELSE IF start_timestamp < block_timestamp
    THEN Fail("create_dca_order", caller, 0, 0, "InvalidStartTime")
    ELSE LET order_id == next_dca_order_id
             \* current_block + interval_blocks, a u32 addition
             next == block_number + interval_blocks IN
         \E outcome \in OverflowOutcomes :
            IF next > MaxU32 /\ outcome = "panic"
            THEN Trap("create_dca_order", caller, 0, 0)
            ELSE
            /\ next_dca_order_id' = next_dca_order_id + 1
            /\ dca_orders' = Insert(dca_orders, order_id,
                   [id |-> order_id, owner |-> caller, coin_id |-> coin_id,
                    amount_per_interval |-> amount_per_interval,
                    interval_blocks |-> interval_blocks,
                    intervals_completed |-> 0,
                    total_intervals |-> total_intervals,
                    next_execution_block |-> WrapU32(next),
                    start_timestamp |-> start_timestamp,
                    is_active |-> TRUE])
            /\ user_dca_orders' =
                   [user_dca_orders EXCEPT ![caller] = Append(@, order_id)]
            /\ executed_at' = Insert(executed_at, order_id, block_number)
            /\ last' = Call("create_dca_order", caller, 0, 0, "Ok", order_id)
            /\ UNCHANGED <<owner, sharia_coins, coin_ids, etfs, template_etfs,
                           next_etf_id, user_etf_subscriptions, balances, env>>

\* Mutant of execute_dca_order: the caller pays instead of the order's owner.
execute_dca_order_debiting_caller(caller, order_id) ==
    IF order_id \notin DOMAIN dca_orders
    THEN Fail("execute_dca_order", caller, order_id, 0, "DCAOrderNotFound")
    ELSE IF ~dca_orders[order_id].is_active
    THEN Fail("execute_dca_order", caller, order_id, 0, "OrderInactive")
    ELSE IF NotYetStarted(dca_orders[order_id])
    THEN Fail("execute_dca_order", caller, order_id, 0, "OrderNotReady")
    ELSE IF NotYetDue(dca_orders[order_id])
    THEN Fail("execute_dca_order", caller, order_id, 0, "OrderNotReady")
    ELSE IF Insufficient(balances[caller],
                         dca_orders[order_id].amount_per_interval)
    THEN Fail("execute_dca_order", caller, order_id, 0, "InsufficientBalance")
    ELSE LET order == dca_orders[order_id]
             user_balance == balances[caller]
             \* order.intervals_completed += 1, a u32 addition
             incremented == order.intervals_completed + 1
             completed == WrapU32(incremented)
             \* current_block + order.interval_blocks, a u32 addition
             next == block_number + order.interval_blocks IN
         \E outcome \in OverflowOutcomes :
            IF (incremented > MaxU32 \/ next > MaxU32) /\ outcome = "panic"
            THEN Trap("execute_dca_order", caller, order_id, 0)
            ELSE
            /\ balances' = [balances EXCEPT
                   ![caller] = Debited(user_balance, order.amount_per_interval)]
            /\ dca_orders' = [dca_orders EXCEPT ![order_id] =
                   [order EXCEPT
                       !.intervals_completed = completed,
                       !.next_execution_block = WrapU32(next),
                       !.is_active = IF LimitReached(order.total_intervals, completed)
                                     THEN FALSE ELSE order.is_active]]
            /\ executed_at' = [executed_at EXCEPT ![order_id] = block_number]
            /\ last' = Call("execute_dca_order", caller, order_id, 0, "Ok", 0)
            /\ UNCHANGED <<owner, sharia_coins, coin_ids, etfs, template_etfs,
                           next_etf_id, user_etf_subscriptions, user_dca_orders,
                           next_dca_order_id, env>>

execute_dca_order(caller, order_id) ==
    IF order_id \notin DOMAIN dca_orders
    THEN Fail("execute_dca_order", caller, order_id, 0, "DCAOrderNotFound")
    ELSE IF ~dca_orders[order_id].is_active
    THEN Fail("execute_dca_order", caller, order_id, 0, "OrderInactive")
    ELSE IF NotYetStarted(dca_orders[order_id])
    THEN Fail("execute_dca_order", caller, order_id, 0, "OrderNotReady")
    ELSE IF NotYetDue(dca_orders[order_id])
    THEN Fail("execute_dca_order", caller, order_id, 0, "OrderNotReady")
    ELSE IF Insufficient(balances[dca_orders[order_id].owner],
                         dca_orders[order_id].amount_per_interval)
    THEN Fail("execute_dca_order", caller, order_id, 0, "InsufficientBalance")
    ELSE LET order == dca_orders[order_id]
             user_balance == balances[order.owner]
             \* order.intervals_completed += 1, a u32 addition
             incremented == order.intervals_completed + 1
             completed == WrapU32(incremented)
             \* current_block + order.interval_blocks, a u32 addition
             next == block_number + order.interval_blocks IN
         \E outcome \in OverflowOutcomes :
            IF (incremented > MaxU32 \/ next > MaxU32) /\ outcome = "panic"
            THEN Trap("execute_dca_order", caller, order_id, 0)
            ELSE
            /\ balances' = [balances EXCEPT
                   ![order.owner] = Debited(user_balance, order.amount_per_interval)]
            /\ dca_orders' = [dca_orders EXCEPT ![order_id] =
                   [order EXCEPT
                       !.intervals_completed = completed,
                       !.next_execution_block = WrapU32(next),
                       !.is_active = IF LimitReached(order.total_intervals, completed)
                                     THEN FALSE ELSE order.is_active]]
            /\ executed_at' = [executed_at EXCEPT ![order_id] = block_number]
            /\ last' = Call("execute_dca_order", caller, order_id, 0, "Ok", 0)
            /\ UNCHANGED <<owner, sharia_coins, coin_ids, etfs, template_etfs,
                           next_etf_id, user_etf_subscriptions, user_dca_orders,
                           next_dca_order_id, env>>

\* Mutant of cancel_dca_order: the owner check is missing.
cancel_dca_order_by_anyone(caller, order_id) ==
    IF order_id \notin DOMAIN dca_orders
    THEN Fail("cancel_dca_order", caller, order_id, 0, "DCAOrderNotFound")
    ELSE /\ dca_orders' = [dca_orders EXCEPT ![order_id].is_active = FALSE]
         /\ last' = Call("cancel_dca_order", caller, order_id, 0, "Ok", 0)
         /\ UNCHANGED <<owner, sharia_coins, coin_ids, etfs, template_etfs,
                        next_etf_id, user_etf_subscriptions, user_dca_orders,
                        next_dca_order_id, balances, env, executed_at>>

\* Mutant of cancel_dca_order: an order that is already inactive is refused.
cancel_dca_order_once(caller, order_id) ==
    IF order_id \notin DOMAIN dca_orders
    THEN Fail("cancel_dca_order", caller, order_id, 0, "DCAOrderNotFound")
    ELSE IF dca_orders[order_id].owner # caller
    THEN Fail("cancel_dca_order", caller, order_id, 0, "Unauthorized")
    ELSE IF ~dca_orders[order_id].is_active
    THEN Fail("cancel_dca_order", caller, order_id, 0, "OrderInactive")
    ELSE /\ dca_orders' = [dca_orders EXCEPT ![order_id].is_active = FALSE]
         /\ last' = Call("cancel_dca_order", caller, order_id, 0, "Ok", 0)
         /\ UNCHANGED <<owner, sharia_coins, coin_ids, etfs, template_etfs,
                        next_etf_id, user_etf_subscriptions, user_dca_orders,
                        next_dca_order_id, balances, env, executed_at>>

cancel_dca_order(caller, order_id) ==
    IF order_id \notin DOMAIN dca_orders
    THEN Fail("cancel_dca_order", caller, order_id, 0, "DCAOrderNotFound")
    ELSE IF dca_orders[order_id].owner # caller
    THEN Fail("cancel_dca_order", caller, order_id, 0, "Unauthorized")
    ELSE /\ dca_orders' = [dca_orders EXCEPT ![order_id].is_active = FALSE]
         /\ last' = Call("cancel_dca_order", caller, order_id, 0, "Ok", 0)
         /\ UNCHANGED <<owner, sharia_coins, coin_ids, etfs, template_etfs,
                        next_etf_id, user_etf_subscriptions, user_dca_orders,
                        next_dca_order_id, balances, env, executed_at>>

----------------------------------------------------------------------------
(* Investment operations.                                                  *)

invest_once(caller, coin_id, amount) ==
    IF ~is_sharia_compliant(coin_id)
    THEN Fail("invest_once", caller, 0, amount, "NotShariaCompliant")
    ELSE IF Insufficient(balances[caller], amount)
    THEN Fail("invest_once", caller, 0, amount, "InsufficientBalance")
    ELSE /\ balances' = [balances EXCEPT
                           ![caller] = Debited(balances[caller], amount)]
         /\ last' = Call("invest_once", caller, 0, amount, "Ok", 0)
         /\ UNCHANGED <<owner, sharia_coins, coin_ids, etfs, template_etfs,
                        next_etf_id, user_etf_subscriptions, dca_orders,
                        user_dca_orders, next_dca_order_id, env, executed_at>>

\* amount.try_into().unwrap_or(0): a transferred value beyond u128 converts to 0
AmountU128(amount) == IF amount > MaxBalance THEN 0 ELSE amount

deposit(caller, amount) ==
    LET current_balance == balances[caller]
        sum == current_balance + AmountU128(amount) IN
    IF sum > MaxBalance
    THEN \E outcome \in OverflowOutcomes :
            IF outcome = "panic"
            THEN Trap("deposit", caller, 0, amount)
            ELSE /\ balances' = [balances EXCEPT ![caller] = Wrap(sum)]
                 /\ last' = Call("deposit", caller, 0, amount, "Ok", 0)
                 /\ UNCHANGED <<owner, sharia_coins, coin_ids, etfs, template_etfs,
                                next_etf_id, user_etf_subscriptions, dca_orders,
                                user_dca_orders, next_dca_order_id, env,
                                executed_at>>
    ELSE /\ balances' = [balances EXCEPT ![caller] = sum]
         /\ last' = Call("deposit", caller, 0, amount, "Ok", 0)
         /\ UNCHANGED <<owner, sharia_coins, coin_ids, etfs, template_etfs,
                        next_etf_id, user_etf_subscriptions, dca_orders,
                        user_dca_orders, next_dca_order_id, env, executed_at>>

----------------------------------------------------------------------------
(* The environment: the chain produces blocks and its clock advances.      *)

advance_block ==
    /\ block_number' = block_number + 1
    /\ last' = Call("advance_block", Deployer, 0, 0, "Ok", 0)
    /\ UNCHANGED <<storage, block_timestamp, executed_at>>

advance_clock ==
    /\ block_timestamp' = block_timestamp + 1
    /\ last' = Call("advance_clock", Deployer, 0, 0, "Ok", 0)
    /\ UNCHANGED <<storage, block_number, executed_at>>

----------------------------------------------------------------------------
(* The specifications.  Every call takes its caller and arguments from     *)
(* the sets of an input record, which also carries the caps on the         *)
(* counters; the specifications differ in the messages they admit and in   *)
(* the inputs they enumerate.                                              *)
(*   admins:   callers of register / remove / create_template              *)
(*   holders:  callers of create_etf / subscribe / create_dca_order /      *)
(*             invest_once / deposit                                       *)
(*   callers:  callers of invest_in_etf / execute / cancel                 *)

CoinCalls(in) ==
    \/ \E c \in in.admins, id \in in.coins, n \in CoinNames,
          s \in CoinSymbols, r \in ComplianceReasons :
            register_sharia_coin(c, id, n, s, r)
    \/ \E c \in in.admins, id \in in.coins : remove_sharia_coin(c, id)

\* the call just made allocated no id, or the counter was within its cap
Within(counter, cap) == last'.res = "Ok" => counter <= cap

EtfCalls(in) ==
    \/ \E c \in in.holders, n \in EtfNames, d \in EtfDescriptions,
          a \in in.allocations :
            create_etf(c, n, d, a) /\ Within(next_etf_id, in.max_etf_id)
    \/ \E c \in in.admins, n \in EtfNames, d \in EtfDescriptions,
          a \in in.allocations :
            create_template_etf(c, n, d, a) /\ Within(next_etf_id, in.max_etf_id)
    \/ \E c \in in.holders, t \in in.template_ids, a \in in.amounts :
            /\ subscribe_to_template_etf(c, t, a)
            /\ Within(next_etf_id, in.max_etf_id)
    \/ \E c \in in.callers, e \in in.etf_ids, a \in in.amounts :
            invest_in_etf(c, e, a)

DcaCalls(in) ==
    \/ \E c \in in.holders, id \in in.coins, a \in in.dca_amounts,
          i \in in.interval_blocks, t \in in.total_intervals,
          st \in in.start_timestamps :
            /\ create_dca_order(c, id, a, i, t, st)
            /\ Within(next_dca_order_id, in.max_order_id)
    \/ \E c \in in.callers, o \in in.order_ids :
            /\ execute_dca_order(c, o)
            /\ Within(dca_orders'[o].intervals_completed, in.max_completed)
    \/ \E c \in in.callers, o \in in.order_ids : cancel_dca_order(c, o)

InvestOnceCalls(in) ==
    \E c \in in.holders, id \in in.coins, a \in in.amounts : invest_once(c, id, a)

DepositCalls(in) ==
    \E c \in in.holders, v \in in.values : deposit(c, v)

Chain(in) ==
    \/ block_number < in.max_height /\ advance_block
    \/ block_timestamp < in.max_clock /\ advance_clock

\* Spec: every message, few values of each argument.
AllInputs ==
    [admins |-> {"owner", "alice"},
     holders |-> {"alice"},
     callers |-> {"alice", "bob"},
     coins |-> {"BTC"},
     allocations |-> { << <<"BTC", 100>> >>, << <<"BTC", 90>> >>,
                       << <<"BTC", 50>>, <<"DOT", 50>> >> },
     template_ids |-> {1, 4},
     etf_ids |-> {1, AllMaxEtfId + 1},
     amounts |-> {2},
     dca_amounts |-> {1},
     interval_blocks |-> {1},
     total_intervals |-> {0, 2},
     start_timestamps |-> {0, 1},
     order_ids |-> {1, AllMaxOrderId + 1},
     values |-> {2, MaxBalance + 1},
     max_etf_id |-> AllMaxEtfId,
     max_order_id |-> AllMaxOrderId,
     max_completed |-> AllMaxCompleted,
     max_height |-> AllMaxHeight,
     max_clock |-> AllMaxClock]

Next ==
    \/ CoinCalls(AllInputs)
    \/ EtfCalls(AllInputs)
    \/ DcaCalls(AllInputs)
    \/ InvestOnceCalls(AllInputs)
    \/ DepositCalls(AllInputs)
    \/ Chain(AllInputs)

Spec == Init /\ [][Next]_vars

\* SpecEtf: the registry, the balances and the baskets.
EtfInputs ==
    [admins |-> {"owner", "alice"},
     holders |-> {"alice"},
     callers |-> {"alice", "bob"},
     coins |-> {"BTC", "ETH"},
     allocations |-> { << <<"BTC", 100>> >>,
                       << <<"BTC", 60>>, <<"ETH", 40>> >>,
                       << <<"BTC", 99>> >>,
                       << <<"BTC", 60>>, <<"ETH", 41>> >>,
                       << <<"BTC", 50>>, <<"DOT", 50>> >> },
     template_ids |-> 1..4,
     etf_ids |-> 1..(MaxEtfId + 1),
     amounts |-> {0, 2},
     values |-> {1, 2, MaxBalance + 1},
     max_etf_id |-> MaxEtfId]

NextEtf ==
    \/ CoinCalls(EtfInputs)
    \/ EtfCalls(EtfInputs)
    \/ DepositCalls(EtfInputs)

SpecEtf == Init /\ [][NextEtf]_vars

\* SpecDca: the registry, the balances, the orders and the chain.
DcaInputs ==
    [admins |-> {"owner"},
     holders |-> {"alice"},
     callers |-> {"alice", "bob"},
     coins |-> {"BTC"},
     dca_amounts |-> {0, 1},
     interval_blocks |-> {0, 1, 2},
     total_intervals |-> {0, 1, 2},
     start_timestamps |-> 0..MaxClock,
     order_ids |-> 1..(MaxOrderId + 1),
     values |-> {1, 2},
     max_order_id |-> MaxOrderId,
     max_completed |-> MaxCompleted,
     max_height |-> MaxHeight,
     max_clock |-> MaxClock]

NextDca ==
    \/ CoinCalls(DcaInputs)
    \/ DcaCalls(DcaInputs)
    \/ DepositCalls(DcaInputs)
    \/ Chain(DcaInputs)

SpecDca == Init /\ [][NextDca]_vars

\* SpecExec: two accounts with balances, two orders and a basket beside them.
ExecInputs ==
    [admins |-> {"owner"},
     holders |-> {"alice", "bob"},
     callers |-> {"alice", "bob"},
     coins |-> {"BTC"},
     template_ids |-> {1},
     amounts |-> {1},
     dca_amounts |-> {1},
     interval_blocks |-> {1},
     total_intervals |-> {0, 1},
     start_timestamps |-> {0},
     order_ids |-> 1..ExecMaxOrderId,
     values |-> {2},
     max_etf_id |-> ExecMaxEtfId,
     max_order_id |-> ExecMaxOrderId,
     max_completed |-> ExecMaxCompleted,
     max_height |-> ExecMaxHeight]

SubscribeCalls(in) ==
    \E c \in in.holders, t \in in.template_ids, a \in in.amounts :
        /\ subscribe_to_template_etf(c, t, a)
        /\ Within(next_etf_id, in.max_etf_id)

Blocks(in) == block_number < in.max_height /\ advance_block

NextExec ==
    \/ CoinCalls(ExecInputs)
    \/ SubscribeCalls(ExecInputs)
    \/ DcaCalls(ExecInputs)
    \/ DepositCalls(ExecInputs)
    \/ Blocks(ExecInputs)

SpecExec == Init /\ [][NextExec]_vars

\* SpecRegistry: the registry with three asset ids and two names.
RegistryInputs ==
    [admins |-> {"owner", "alice"},
     coins |-> {"BTC", "ETH", "DOT"},
     names |-> {"name", "renamed"}]

RegistryCalls(in) ==
    \/ \E c \in in.admins, id \in in.coins, n \in in.names,
          s \in CoinSymbols, r \in ComplianceReasons :
            register_sharia_coin(c, id, n, s, r)
    \/ \E c \in in.admins, id \in in.coins : remove_sharia_coin(c, id)

NextRegistry == RegistryCalls(RegistryInputs)

SpecRegistry == Init /\ [][NextRegistry]_vars

\* SpecTemplates: baskets and templates created until the id counter has
\* passed TplMaxEtfId.
TemplateInputs ==
    [admins |-> {"owner"},
     holders |-> {"alice"},
     coins |-> {"BTC"},
     allocations |-> { << <<"BTC", 100>> >> },
     max_etf_id |-> TplMaxEtfId]

NextTemplates ==
    \/ \E c \in TemplateInputs.admins, id \in TemplateInputs.coins,
          n \in CoinNames, s \in CoinSymbols, r \in ComplianceReasons :
            register_sharia_coin(c, id, n, s, r)
    \/ \E c \in TemplateInputs.holders, n \in EtfNames, d \in EtfDescriptions,
          a \in TemplateInputs.allocations :
            /\ create_etf(c, n, d, a)
            /\ Within(next_etf_id, TemplateInputs.max_etf_id)
    \/ \E c \in TemplateInputs.admins, n \in EtfNames, d \in EtfDescriptions,
          a \in TemplateInputs.allocations :
            /\ create_template_etf(c, n, d, a)
            /\ Within(next_etf_id, TemplateInputs.max_etf_id)

SpecTemplates == Init /\ [][NextTemplates]_vars

\* SpecSched: one order at a time, with intervals up to the largest u32.
SchedInputs ==
    [admins |-> {"owner"},
     holders |-> {"alice"},
     callers |-> {"alice", "bob"},
     coins |-> {"BTC"},
     dca_amounts |-> {1},
     interval_blocks |-> {0, 1, 2, MaxU32},
     total_intervals |-> {0},
     start_timestamps |-> {0},
     order_ids |-> 1..SchedMaxOrderId,
     values |-> {2},
     max_order_id |-> SchedMaxOrderId,
     max_completed |-> SchedMaxCompleted,
     max_height |-> SchedMaxHeight]

NextSched ==
    \/ CoinCalls(SchedInputs)
    \/ DcaCalls(SchedInputs)
    \/ DepositCalls(SchedInputs)
    \/ Blocks(SchedInputs)

SpecSched == Init /\ [][NextSched]_vars

----------------------------------------------------------------------------
(* Vocabulary of the properties.                                           *)

ErrorKinds ==
    {"CoinNotFound", "NotShariaCompliant", "ETFNotFound", "DCAOrderNotFound",
     "InsufficientBalance", "Unauthorized", "InvalidAllocation",
     "InvalidCoinInAllocation", "OrderNotReady", "OrderInactive",
     "InvalidStartTime", "ETFNotOwnedByUser"}

\* the step just taken is the call `op`, and it returned Ok
Succeeded(op) == last'.op = op /\ last'.res = "Ok"

\* the step just taken is a successful creation of a basket or template
Created ==
    \/ Succeeded("create_etf")
    \/ Succeeded("create_template_etf")
    \/ Succeeded("subscribe_to_template_etf")

\* the step just taken debits `amount` from `account`
Debits(account, amount) ==
    \/ /\ \/ Succeeded("subscribe_to_template_etf")
          \/ Succeeded("invest_in_etf")
          \/ Succeeded("invest_once")
       /\ account = last'.caller
       /\ amount = last'.amount
    \/ /\ Succeeded("execute_dca_order")
       /\ account = dca_orders[last'.arg].owner
       /\ amount = dca_orders[last'.arg].amount_per_interval

----------------------------------------------------------------------------
\* C1: no balance is ever negative, and every debit of an amount a (by
\* subscribe_to_template, invest, invest_once or execute) is taken from a
\* balance that is at least a and leaves exactly the balance minus a.
C1_BalanceNeverNegative ==
    [][/\ \A a \in Accounts : balances[a] >= 0 /\ balances'[a] >= 0
       /\ \A a \in Accounts, amount \in 0..MaxBalance :
            Debits(a, amount) =>
                /\ balances[a] >= amount
                /\ balances'[a] = balances[a] - amount]_vars

\* C1 witness: an execute has just debited an order's owner down to zero.
C1_Witness ==
    /\ last.op = "execute_dca_order"
    /\ last.res = "Ok"
    /\ dca_orders[last.arg].amount_per_interval > 0
    /\ balances[dca_orders[last.arg].owner] = 0

----------------------------------------------------------------------------
StoredTotalsAre100 ==
    /\ \A id \in DOMAIN etfs : AllocationTotal(etfs[id].allocations) = 100
    /\ \A id \in DOMAIN template_etfs :
            AllocationTotal(template_etfs[id].allocations) = 100

\* the step just taken is a create_etf or create_template_etf call whose
\* allocations do not sum to 100
SubmitsBadTotal ==
    /\ last'.op \in {"create_etf", "create_template_etf"}
    /\ AllocationTotal(last'.allocations) # 100

----------------------------------------------------------------------------
\* the ids whose stored record the step just taken created or replaced
Written(m1, m2) ==
    {id \in DOMAIN m2 : id \notin DOMAIN m1 \/ m1[id] # m2[id]}

\* C3: every asset id in the allocations of a basket or template is a
\* registered, verified asset at the moment the basket is created, for the
\* templates seeded at initialization and for every basket created by
\* create_basket, create_template or subscribe_to_template.
C3_AssetsCompliantAtCreation ==
    /\ \A id \in DOMAIN template_etfs :
            AllCompliant(template_etfs[id].allocations)
    /\ [][Created =>
            /\ \A id \in Written(etfs, etfs') : AllCompliant(etfs'[id].allocations)
            /\ \A id \in Written(template_etfs, template_etfs') :
                    AllCompliant(template_etfs'[id].allocations)]_vars

----------------------------------------------------------------------------
\* C4: for every DCA order with total_intervals > 0, intervals_completed
\* never exceeds total_intervals, under any interleaving of execute and
\* cancel calls and any advance of height and clock.
C4_CompletedWithinLimit ==
    \A o \in DOMAIN dca_orders :
        dca_orders[o].total_intervals > 0 =>
            dca_orders[o].intervals_completed <= dca_orders[o].total_intervals

\* C4 witness: an order of two intervals has been executed twice.
C4_Witness ==
    \E o \in DOMAIN dca_orders :
        /\ dca_orders[o].total_intervals = 2
        /\ dca_orders[o].intervals_completed = 2
        /\ last.op = "execute_dca_order"
        /\ last.res = "Ok"

----------------------------------------------------------------------------
\* C5: an order's is_active never goes from false to true, and goes from
\* true to false only in a successful execute that brings
\* intervals_completed to total_intervals (> 0) or in a cancel by the
\* order's owner; no other call and no advance of height or clock changes it.
C5_ActiveOnlyFalls ==
    [][\A o \in DOMAIN dca_orders :
        /\ o \in DOMAIN dca_orders'
        /\ ~dca_orders[o].is_active => ~dca_orders'[o].is_active
        /\ dca_orders[o].is_active /\ ~dca_orders'[o].is_active =>
            \/ /\ Succeeded("execute_dca_order")
               /\ last'.arg = o
               /\ dca_orders[o].total_intervals > 0
               /\ dca_orders'[o].intervals_completed
                    = dca_orders[o].total_intervals
            \/ /\ Succeeded("cancel_dca_order")
               /\ last'.arg = o
               /\ last'.caller = dca_orders[o].owner]_vars

\* C5 witness: an order that completed its intervals stays inactive while
\* the clock advances.
C5_Witness ==
    \E o \in DOMAIN dca_orders :
        /\ ~dca_orders[o].is_active
        /\ dca_orders[o].intervals_completed = dca_orders[o].total_intervals
        /\ last.op = "advance_clock"

----------------------------------------------------------------------------
\* the step just taken is an execute call on order o
Executes(o) == last'.op = "execute_dca_order" /\ last'.arg = o

\* C6: an order with total_intervals = n > 0 admits exactly n successful
\* executions: each successful execute debits the owner by exactly
\* amount_per_interval and adds 1 to intervals_completed, which nothing else
\* changes and which was below n; the order stays active unless this was the
\* n-th, which deactivates it; an execute on the inactive order fails with
\* OrderInactive and changes nothing.
C6_ExactlyNExecutions ==
    [][\A o \in DOMAIN dca_orders :
        LET order == dca_orders[o]
            after == dca_orders'[o]
        IN  order.total_intervals > 0 =>
            /\ Executes(o) /\ last'.res = "Ok" =>
                /\ order.is_active
                /\ order.intervals_completed < order.total_intervals
                /\ after.intervals_completed = order.intervals_completed + 1
                /\ balances' = [balances EXCEPT ![order.owner] =
                                    @ - order.amount_per_interval]
                /\ after.is_active =
                        (after.intervals_completed < order.total_intervals)
            /\ Executes(o) /\ ~order.is_active =>
                last'.res = "OrderInactive" /\ UNCHANGED storage
            /\ after.intervals_completed # order.intervals_completed =>
                Executes(o) /\ last'.res = "Ok"]_vars

\* C6 witness: an execute was refused as OrderInactive on an order of two
\* intervals that had been executed twice.
C6_Witness ==
    /\ last.op = "execute_dca_order"
    /\ last.res = "OrderInactive"
    /\ dca_orders[last.arg].total_intervals = 2
    /\ dca_orders[last.arg].intervals_completed = 2
    /\ dca_orders[last.arg].amount_per_interval > 0

----------------------------------------------------------------------------
\* C7: whenever a call returns an error, the whole state is as it was before
\* the call: balances, registry and enumeration index, baskets, templates,
\* orders, both per-account indexes and both id counters; so a failed
\* create_basket consumes no id, and a successful create_basket returns the
\* id the counter held.
C7_ErrorsChangeNothing ==
    [][/\ last'.res \in ErrorKinds => UNCHANGED storage
       /\ Succeeded("create_etf") => last'.ret = next_etf_id]_vars

\* C7 witness: a subscribe_to_template was refused for insufficient balance
\* by a caller who holds some balance.
C7_Witness ==
    /\ last.op = "subscribe_to_template_etf"
    /\ last.res = "InsufficientBalance"
    /\ balances[last.caller] > 0

----------------------------------------------------------------------------
\* C8: every id returned by create_basket, create_template or
\* subscribe_to_template is strictly greater than every id assigned before
\* (the seeded templates' ids included), and no creation replaces the stored
\* record of an existing basket or template.
C8_IdsNeverReused ==
    [][Created =>
        /\ \A id \in DOMAIN etfs \cup DOMAIN template_etfs : last'.ret > id
        /\ \A id \in DOMAIN etfs : etfs'[id] = etfs[id]
        /\ \A id \in DOMAIN template_etfs :
                template_etfs'[id] = template_etfs[id]]_vars

----------------------------------------------------------------------------
\* no basket or template has been created since construction
Fresh ==
    /\ etfs = << >>
    /\ template_etfs = initialize_template_etfs
    /\ \A a \in Accounts : user_etf_subscriptions[a] = << >>

\* C9: on a fresh platform with "BTC" registered, the first create_basket by
\* a user with allocations [("BTC", 100)] succeeds, returns id 4, stores a
\* basket with that creator and total_value 0, and appends the id to the
\* creator's basket index.
C9_FirstBasketGetsId4 ==
    [][(/\ Fresh
        /\ is_sharia_compliant("BTC")
        /\ last'.op = "create_etf"
        /\ last'.caller \in Users
        /\ last'.allocations = << <<"BTC", 100>> >>)
       => /\ last'.res = "Ok"
          /\ last'.ret = 4
          /\ 4 \in DOMAIN etfs'
          /\ etfs'[4].creator = last'.caller
          /\ etfs'[4].total_value = 0
          /\ user_etf_subscriptions'[last'.caller] = <<4>>]_vars

----------------------------------------------------------------------------
\* C10: an execute on an existing active order fails with OrderNotReady
\* whenever the clock is before start_timestamp or the height is below
\* next_execution_block, and then changes nothing; it succeeds only when
\* clock >= start_timestamp and height >= next_execution_block.
C10_NotReadyBeforeDue ==
    [][\A o \in DOMAIN dca_orders :
        LET order == dca_orders[o]
            early == \/ block_timestamp < order.start_timestamp
                     \/ block_number < order.next_execution_block
        IN  Executes(o) /\ order.is_active =>
            /\ early => last'.res = "OrderNotReady" /\ UNCHANGED storage
            /\ last'.res = "Ok" => ~early]_vars

\* C10 witness: an execute was refused as OrderNotReady on an active order
\* whose start time had passed but whose height was not reached, while the
\* owner could have paid.
C10_Witness ==
    /\ last.op = "execute_dca_order"
    /\ last.res = "OrderNotReady"
    /\ dca_orders[last.arg].start_timestamp <= block_timestamp
    /\ block_number < dca_orders[last.arg].next_execution_block
    /\ dca_orders[last.arg].amount_per_interval > 0
    /\ balances[dca_orders[last.arg].owner]
            >= dca_orders[last.arg].amount_per_interval

----------------------------------------------------------------------------
\* the step just taken is a cancel call on order o made by the order's owner
CancelsOwn(o) ==
    /\ last'.op = "cancel_dca_order"
    /\ last'.arg = o
    /\ last'.caller = dca_orders[o].owner

\* C11: a cancel by the order's owner succeeds whether or not the order is
\* still active and leaves the order inactive; on an order that is already
\* inactive (cancelled before, or completed by reaching its interval limit)
\* it leaves the whole state unchanged, so cancel;cancel is one cancel.
C11_CancelIdempotent ==
    [][\A o \in DOMAIN dca_orders :
        CancelsOwn(o) =>
            /\ last'.res = "Ok"
            /\ ~dca_orders'[o].is_active
            /\ ~dca_orders[o].is_active => UNCHANGED storage]_vars

\* C11 witness: the owner's cancel succeeded on an order that had already
\* completed its two intervals.
C11_Witness ==
    /\ last.op = "cancel_dca_order"
    /\ last.res = "Ok"
    /\ dca_orders[last.arg].total_intervals = 2
    /\ dca_orders[last.arg].intervals_completed = 2

----------------------------------------------------------------------------
OwnerOnlyMessages ==
    {"register_sharia_coin", "remove_sharia_coin", "create_template_etf"}

\* C12: register, remove and create_template called by an account other than
\* the platform owner fail with Unauthorized, and cancel called on an existing
\* order by an account other than the order's owner fails with Unauthorized,
\* leaving storage as it was; no call made by an account other than the
\* platform owner changes the registry, its enumeration index or the
\* templates, and no cancel by another account changes an order.
C12_CallerGated ==
    [][/\ last'.op \in OwnerOnlyMessages /\ last'.caller # owner =>
            last'.res = "Unauthorized" /\ UNCHANGED storage
       /\ \A o \in DOMAIN dca_orders :
            ( /\ last'.op = "cancel_dca_order"
              /\ last'.arg = o
              /\ last'.caller # dca_orders[o].owner ) =>
                /\ last'.res = "Unauthorized"
                /\ UNCHANGED storage
       /\ last'.caller # owner =>
            UNCHANGED <<sharia_coins, coin_ids, template_etfs>>]_vars

\* C12 witness: a cancel by another account was refused as Unauthorized on an
\* active order, with an asset registered.
C12_Witness ==
    /\ last.op = "cancel_dca_order"
    /\ last.res = "Unauthorized"
    /\ last.caller # dca_orders[last.arg].owner
    /\ dca_orders[last.arg].is_active
    /\ coin_ids # << >>

----------------------------------------------------------------------------
\* what an execute on the existing order o returns, whoever calls it
ExecuteOutcome(o) ==
    LET order == dca_orders[o] IN
    IF ~order.is_active THEN "OrderInactive"
    ELSE IF block_timestamp < order.start_timestamp
            \/ block_number < order.next_execution_block THEN "OrderNotReady"
    ELSE IF balances[order.owner] < order.amount_per_interval
    THEN "InsufficientBalance"
    ELSE "Ok"

\* the fields of an order that are fixed when it is created
Terms(order) ==
    <<order.id, order.owner, order.coin_id, order.amount_per_interval,
      order.interval_blocks, order.total_intervals, order.start_timestamp>>

\* C13: for any caller, a successful execute on order o lowers the balance of
\* the order's owner by amount_per_interval and rewrites that one order,
\* keeping its terms; every other balance (the caller's included, when the
\* caller is not the owner), every other order, the baskets, the templates,
\* the registry, the indexes and the counters are unchanged; and what an
\* execute returns (when it does not panic) is decided by the order, the
\* owner's balance, the height and the clock, not by the caller.
C13_ExecuteMovesOnlyOwnersFunds ==
    [][\A o \in DOMAIN dca_orders :
        LET order == dca_orders[o] IN
        Executes(o) =>
            /\ last'.res # "Trap" => last'.res = ExecuteOutcome(o)
            /\ last'.res = "Ok" =>
                /\ balances' = [balances EXCEPT ![order.owner] =
                                    @ - order.amount_per_interval]
                /\ DOMAIN dca_orders' = DOMAIN dca_orders
                /\ \A p \in DOMAIN dca_orders \ {o} :
                        dca_orders'[p] = dca_orders[p]
                /\ Terms(dca_orders'[o]) = Terms(order)
                /\ UNCHANGED <<owner, sharia_coins, coin_ids, etfs,
                               template_etfs, next_etf_id,
                               user_etf_subscriptions, user_dca_orders,
                               next_dca_order_id>>]_vars

\* C13 witness: an account that holds a balance executed another account's
\* order while a second order and a basket exist.
C13_Witness ==
    /\ last.op = "execute_dca_order"
    /\ last.res = "Ok"
    /\ last.caller # dca_orders[last.arg].owner
    /\ balances[last.caller] > 0
    /\ dca_orders[last.arg].amount_per_interval > 0
    /\ \E p \in DOMAIN dca_orders : p # last.arg
    /\ etfs # << >>

----------------------------------------------------------------------------
\* C14: a successful remove changes no basket, template or order (nor any
\* balance, index or counter); and an invest by a basket's creator that the
\* balance covers and the total can hold succeeds and adds the amount,
\* whether or not the basket's assets are still registered.
C14_RemoveKeepsBaskets ==
    [][/\ Succeeded("remove_sharia_coin") =>
            UNCHANGED <<etfs, template_etfs, dca_orders, user_etf_subscriptions,
                        user_dca_orders, next_etf_id, next_dca_order_id,
                        balances, owner>>
       /\ \A e \in DOMAIN etfs :
            ( /\ last'.op = "invest_in_etf"
              /\ last'.arg = e
              /\ last'.caller = etfs[e].creator
              /\ balances[last'.caller] >= last'.amount
              /\ etfs[e].total_value + last'.amount <= MaxBalance ) =>
                /\ last'.res = "Ok"
                /\ etfs'[e] = [etfs[e] EXCEPT
                                !.total_value = @ + last'.amount]]_vars

\* C14 witness: the creator invested in a basket of "BTC" after "BTC" was
\* removed from the registry, while an order exists.
C14_Witness ==
    /\ last.op = "invest_in_etf"
    /\ last.res = "Ok"
    /\ last.amount > 0
    /\ etfs[last.arg].allocations = << <<"BTC", 100>> >>
    /\ ~is_sharia_compliant("BTC")
    /\ dca_orders # << >>

----------------------------------------------------------------------------
\* the enumeration index has no duplicate, holds exactly the ids that have a
\* record, and list() returns their records in the order of the index
IndexMatchesRegistry ==
    /\ \A i, j \in 1..Len(coin_ids) : coin_ids[i] = coin_ids[j] => i = j
    /\ {coin_ids[i] : i \in 1..Len(coin_ids)} = DOMAIN sharia_coins
    /\ get_sharia_coins = [i \in 1..Len(coin_ids) |-> sharia_coins[coin_ids[i]]]

\* s without the element e, the others in their order
Without(s, e) == SelectSeq(s, LAMBDA x : x # e)

\* C15: in every state the enumeration index has no duplicate and holds
\* exactly the ids that have a record, and list() returns those records in
\* the order of the index; a successful register leaves the index as it was
\* when the id was already in it and otherwise appends the id at the end; a
\* successful remove takes one id out and keeps the order of the others; no
\* other step changes the index.
C15_IndexInInsertionOrder ==
    [][/\ IndexMatchesRegistry /\ IndexMatchesRegistry'
       /\ Succeeded("register_sharia_coin") =>
            \E id \in DOMAIN sharia_coins' :
                /\ sharia_coins'[id].verified
                /\ \A x \in DOMAIN sharia_coins' \ {id} :
                        x \in DOMAIN sharia_coins
                        /\ sharia_coins'[x] = sharia_coins[x]
                /\ coin_ids' = IF id \in DOMAIN sharia_coins
                               THEN coin_ids ELSE Append(coin_ids, id)
       /\ Succeeded("remove_sharia_coin") =>
            \E id \in DOMAIN sharia_coins :
                /\ DOMAIN sharia_coins' = DOMAIN sharia_coins \ {id}
                /\ coin_ids' = Without(coin_ids, id)
       /\ ~Succeeded("register_sharia_coin")
            /\ ~Succeeded("remove_sharia_coin") =>
                UNCHANGED <<coin_ids, sharia_coins>>]_vars

\* C15 witness: with three ids registered and one of them registered again
\* under another name, the first of the index was removed and the other two
\* kept their order.
C15_Witness ==
    /\ last.op = "remove_sharia_coin"
    /\ last.res = "Ok"
    /\ coin_ids = <<"DOT", "BTC">>
    /\ sharia_coins["DOT"].name = "renamed"
    /\ Len(get_sharia_coins) = 2

----------------------------------------------------------------------------
\* C16: a successful execute sets the order's next_execution_block to its
\* previous next_execution_block plus interval_blocks, whatever the height at
\* which it is called.
C16_AdvancesByInterval ==
    [][\A o \in DOMAIN dca_orders :
        Executes(o) /\ last'.res = "Ok" =>
            dca_orders'[o].next_execution_block =
                dca_orders[o].next_execution_block
                    + dca_orders[o].interval_blocks]_vars

----------------------------------------------------------------------------
\* C17: an invest call fails with ETFNotFound when no basket has the id,
\* else with ETFNotOwnedByUser when the caller is not the basket's creator,
\* else with InsufficientBalance when the caller's balance is below the
\* amount; when it succeeds it lowers the caller's balance by the amount and
\* raises the basket's total_value by exactly the amount.  The total_value
\* of an existing basket never decreases, and changes only in a successful
\* invest by its creator.
C17_InvestChecksAndEffects ==
    [][/\ last'.op = "invest_in_etf" =>
            LET e == last'.arg
                c == last'.caller
                a == last'.amount
            IN  IF e \notin DOMAIN etfs THEN last'.res = "ETFNotFound"
                ELSE IF etfs[e].creator # c THEN last'.res = "ETFNotOwnedByUser"
                ELSE IF balances[c] < a THEN last'.res = "InsufficientBalance"
                ELSE /\ last'.res \notin ErrorKinds
                     /\ last'.res = "Ok" =>
                            /\ balances' = [balances EXCEPT ![c] = @ - a]
                            /\ etfs'[e].total_value = etfs[e].total_value + a
       /\ \A e \in DOMAIN etfs :
            /\ e \in DOMAIN etfs'
            /\ etfs'[e].total_value >= etfs[e].total_value
            /\ etfs'[e].total_value # etfs[e].total_value =>
                    /\ Succeeded("invest_in_etf")
                    /\ last'.arg = e
                    /\ last'.caller = etfs[e].creator]_vars

----------------------------------------------------------------------------
\* C18: list_templates returns every template stored, the seeded ones and
\* every one created by create_template, however many ids were allocated
\* before.
C18_ListsEveryTemplate ==
    {get_template_etfs[i] : i \in 1..Len(get_template_etfs)}
        = {template_etfs[id] : id \in DOMAIN template_etfs}

----------------------------------------------------------------------------
\* the sum of a balance and a value, held at the largest amount
Saturated(balance, value) ==
    IF balance + value > MaxBalance THEN MaxBalance ELSE balance + value

\* C19: a deposit succeeds, raises the caller's balance by exactly the value
\* attached to the call, holding it at the largest amount when the sum would
\* pass it, and changes no other balance; so it never lowers a balance and
\* never leaves a balance that could grow as it was when a value was attached.
C19_DepositSaturates ==
    [][last'.op = "deposit" =>
        LET c == last'.caller
            v == last'.amount
        IN  /\ last'.res = "Ok"
            /\ balances' = [balances EXCEPT ![c] = Saturated(@, v)]
            /\ balances'[c] >= balances[c]
            /\ v > 0 /\ balances[c] < MaxBalance =>
                    balances'[c] > balances[c]]_vars

----------------------------------------------------------------------------
\* C20: every successful execute of an order happens at a height that is at
\* least interval_blocks above the height of the order's previous successful
\* execute, or, for the first one, above the height at which the order was
\* created; so no more than floor(h / interval_blocks) + 1 executions of an
\* order fit in a window of h blocks.
C20_ExecutionsSpacedByInterval ==
    [][\A o \in DOMAIN dca_orders :
        Executes(o) /\ last'.res = "Ok" =>
            block_number - executed_at[o] >= dca_orders[o].interval_blocks]_vars

----------------------------------------------------------------------------
\* the sum of f[x] over the x of the finite set S
RECURSIVE SumOver(_, _)
SumOver(f, S) ==
    IF S = {} THEN 0
    ELSE LET x == CHOOSE y \in S : TRUE
         IN  f[x] + SumOver(f, S \ {x})

\* what the platform holds or has spent for account a, apart from invest_once:
\* the balance, the total_value of the baskets a created, and
\* intervals_completed * amount_per_interval over the orders a owns
HeldFor(bal, baskets, orders, a) ==
    bal[a]
    + SumOver([e \in DOMAIN baskets |-> baskets[e].total_value],
              {e \in DOMAIN baskets : baskets[e].creator = a})
    + SumOver([o \in DOMAIN orders |->
                    orders[o].intervals_completed
                        * orders[o].amount_per_interval],
              {o \in DOMAIN orders : orders[o].owner = a})

\* the value the step just taken deposits for account a
DepositedBy(a) ==
    IF Succeeded("deposit") /\ last'.caller = a THEN last'.amount ELSE 0

\* the amount the step just taken spends for account a through invest_once
SpentOnceBy(a) ==
    IF Succeeded("invest_once") /\ last'.caller = a THEN last'.amount ELSE 0

\* C21: for every account a, (total deposited by a) = balance(a) + (the
\* total_value of a's baskets) + (intervals_completed * amount_per_interval
\* over a's orders) + (total spent by a through invest_once).  Both sides are
\* zero after construction, so the equality holds in every reachable state
\* exactly when every step changes both sides alike: what is held for a
\* changes by the value a deposits in the step less the amount a spends
\* through invest_once in it, and by nothing for every other account.
C21_FundsConserved ==
    [][\A a \in Accounts :
        HeldFor(balances', etfs', dca_orders', a)
            - HeldFor(balances, etfs, dca_orders, a)
        = DepositedBy(a) - SpentOnceBy(a)]_vars

====
